---- MODULE Spec2Model ----
(***************************************************************************)
(* Model of qcodes/utils/multiprocessing.py: the ServerManager request/   *)
(* response protocol (write, ask, halt, restart over the query, response  *)
(* and error queues) and the StreamQueue stream redirection.              *)
(***************************************************************************)
EXTENDS Naturals, Integers, Sequences, FiniteSets, TLC

\* ---------------------------------------------------------------- bounds
\* total number of top-level ServerManager calls issued by the callers
MaxCalls == 2
\* number of error strings the server behaviour pushes on the error queue
MaxErrs == 1
\* number of _SQWriter.write calls in the StreamQueue specification
MaxWrites == 2
\* the clock of the StreamQueue specification runs from 0 to MaxTime seconds
MaxTime == 4
\* calls of set_mp_method
MaxSets == 4

\* ------------------------------------------------------------- constants
\* the two concurrent callers sharing one ServerManager
Callers == {"c1", "c2"}
\* error strings a server behaviour may put on the error queue
ErrStrs == {"err1", "err2"}
\* the server behaviours (server_class) a manager is constructed with
Behaviours == {"echo", "quiet", "hung", "faulty"}

VARIABLES
    \* ---- ServerManager
    name,           \* self.name
    behaviour,      \* self._server_class
    alive,          \* self._server.is_alive()
    started,        \* number of QcodesProcess servers started so far
    query_queue,    \* self._query_queue
    response_queue, \* self._response_queue
    error_queue,    \* self._error_queue
    query_lock,     \* owner of self.query_lock ("free" when not held)
    pc,             \* position of each caller inside its call
    op,             \* the top-level method each caller is (or was last) in
    query,          \* the query tuple the call put on the query queue
    res,            \* local variable res of ask
    errstr,         \* local variable errstr of _check_for_errors
    result,         \* how the caller's last call ended
    sys_stderr_out, \* what _check_for_errors printed to sys.stderr
    ncalls,         \* number of top-level calls issued
    pushed,         \* error strings the server behaviour has pushed
    hist,           \* per call: observations used to state the properties
    \* ---- StreamQueue / _SQWriter (one process)
    sys_stdout,     \* sys.stdout
    sys_stderr,     \* sys.stderr
    initial_streams,\* StreamQueue.initial_streams (<<>> is None)
    queue,          \* StreamQueue.queue
    last_read_ts,   \* StreamQueue.last_read_ts.value
    now,            \* time.time(), in seconds
    terminal,       \* the lines printed to sys.__stdout__
    sq_call,        \* the last StreamQueue/_SQWriter call and what it raised
    nwrites,        \* number of _SQWriter.write calls made
    connected_at,   \* the (stdout, stderr) pair current at the last connect
    enq,            \* every message tuple put on StreamQueue.queue so far
    \* ---- StreamQueue.get (the consumer)
    get_pc,         \* position of the consumer inside get
    out,            \* local variable out of get
    on_new_line,    \* StreamQueue._on_new_line
    last_stream,    \* StreamQueue._last_stream (<<>> is None)
    text,           \* the strings get has returned so far, concatenated
    drained,        \* the message tuples get has taken off the queue
    \* ---- QcodesProcess.run (the process that writes)
    run_pc,         \* position of the process inside run
    stream_queue,   \* self.stream_queue is a StreamQueue (FALSE is None)
    failure,        \* the exception that escaped the target ("none": none)
    run_result,     \* how run ended
    run_hist,       \* what run did: observations used to state the properties
    \* ---- multiprocessing start method
    actual_context, \* the start method fixed for the process ("none": not yet)
    mp_call,        \* the last call of set_mp_method and how it ended
    nsets,          \* number of calls of set_mp_method made
    \* ---- Keithley2450 (one driver and its instrument)
    instr_source,   \* the instrument's source function, as it answers it
    instr_sense,    \* the instrument's sense function, as it answers it
    source_function,\* the value the parameter source_function holds
    sense_function, \* the value the parameter sense_function holds
    sweep_arguments,\* Source2450._sweep_arguments of each source module
    setpoints,      \* sweep.setpoints of each sense module
    k_call,         \* the last call on the driver and how it ended
    k_hist          \* what the calls did: used to state the properties

smvars == <<name, behaviour, alive, started, query_queue, response_queue,
            error_queue, query_lock, pc, op, query, res, errstr, result,
            sys_stderr_out, ncalls, pushed, hist>>
sqvars == <<sys_stdout, sys_stderr, initial_streams, queue, last_read_ts,
            now, terminal, sq_call, nwrites, connected_at, enq>>
getvars == <<get_pc, out, on_new_line, last_stream, text, drained>>
runvars == <<run_pc, stream_queue, failure, run_result, run_hist>>
mpvars == <<actual_context, mp_call, nsets>>
kvars == <<instr_source, instr_sense, source_function, sense_function,
           sweep_arguments, setpoints, k_call, k_hist>>
othervars == <<mpvars, kvars>>
vars == <<smvars, sqvars, getvars, runvars, othervars>>

\* ------------------------------------------------------------ ServerManager

\* a query tuple: the text queried, tagged with the call that made it
Query(kind, c, n) == [kind |-> kind, by |-> c, n |-> n]
NoQuery == [kind |-> "none", by |-> "none", n |-> 0]

\* errhead without the manager's name formatted in
errheadNoName(nm) == <<"*** error on ", " ***">>

\* errhead = '*** error on {} ***'.format(self.name)
errhead(nm) == <<"*** error on ", nm, " ***">>
\* errhead + '\n\n' + errstr
errtext(nm, e) == errhead(nm) \o <<"\n\n", e>>
\* s contains the piece p
Contains(s, p) == \E i \in 1..Len(s) : s[i] = p

NoResult == [kind |-> "none", val |-> NoQuery, args |-> <<>>]
Returned(v) == [kind |-> "return", val |-> v, args |-> <<>>]
Raised(k, a) == [kind |-> k, val |-> NoQuery, args |-> a]

\* what a call has observed so far: its number, the error queue when it was
\* made, the response and the error string it dequeued, whether its wait
\* timed out, whether the except clause saw a pending error, what is_alive
\* said to halt, whether join returned, whether it held the lock, whether
\* no other caller was inside a call at any time during this one, and whether
\* all the calls the caller made before this one were writes
NoHist == [n |-> 0, err_at_call |-> <<>>, got |-> NoQuery, took |-> "none",
           timed_out |-> FALSE, err_seen |-> FALSE, was_alive |-> FALSE,
           joined |-> FALSE, locked |-> FALSE, alone |-> FALSE,
           no_ask_before |-> FALSE]

SMInit ==
    /\ name = "srv"
    /\ behaviour \in Behaviours
    /\ alive = TRUE
    /\ started = 1
    /\ query_queue = <<>>
    /\ response_queue = <<>>
    /\ error_queue = <<>>
    /\ query_lock = "free"
    /\ pc = [c \in Callers |-> "idle"]
    /\ op = [c \in Callers |-> "none"]
    /\ query = [c \in Callers |-> NoQuery]
    /\ res = [c \in Callers |-> NoQuery]
    /\ errstr = [c \in Callers |-> "none"]
    /\ result = [c \in Callers |-> NoResult]
    /\ sys_stderr_out = <<>>
    /\ ncalls = 0
    /\ pushed = {}
    /\ hist = [c \in Callers |-> NoHist]

\* entering a top-level call: the locals of the previous call are gone
Enter(c, method, at) ==
    /\ pc[c] = "idle"
    /\ ncalls < MaxCalls
    /\ ncalls' = ncalls + 1
    /\ op' = [op EXCEPT ![c] = method]
    /\ pc' = [pc EXCEPT ![c] = at]
    /\ res' = [res EXCEPT ![c] = NoQuery]
    /\ errstr' = [errstr EXCEPT ![c] = "none"]
    /\ result' = [result EXCEPT ![c] = NoResult]
    /\ hist' = [d \in Callers |->
                 IF d = c
                 THEN [NoHist EXCEPT
                         !.n = ncalls + 1,
                         !.err_at_call = error_queue,
                         !.was_alive = alive,
                         !.alone = \A o \in Callers \ {c} : pc[o] = "idle",
                         !.no_ask_before =
                             \/ op[c] = "none"
                             \/ op[c] = "write" /\ hist[c].no_ask_before]
                 ELSE IF pc[d] # "idle"
                      THEN [hist[d] EXCEPT !.alone = FALSE]
                      ELSE hist[d]]

\* a call ends (by return or by an exception leaving it); the with-block
\* of ask releases query_lock on the way out
Leave(c, outcome) ==
    /\ pc' = [pc EXCEPT ![c] = "idle"]
    /\ result' = [result EXCEPT ![c] = outcome]
    /\ query_lock' = IF query_lock = c THEN "free" ELSE query_lock

\* self._server = QcodesProcess(target=self._run_server, name=name);
\* self._server.start().  args are the positional arguments of the call:
\* the method takes exactly one, anything else is a TypeError
start_server(args) ==
    IF Len(args) = 1
    THEN [raised |-> FALSE, alive |-> TRUE, started |-> started + 1,
          name |-> args[1]]
    ELSE [raised |-> TRUE, alive |-> alive, started |-> started,
          name |-> name]

\* write taking a response off the response queue
writeTakesResponse(c) ==
    /\ Enter(c, "write", "check_empty")
    /\ query_queue' = Append(query_queue, Query("write", c, ncalls + 1))
    /\ query' = [query EXCEPT ![c] = Query("write", c, ncalls + 1)]
    /\ response_queue' = IF response_queue = <<>> THEN response_queue
                                                  ELSE Tail(response_queue)
    /\ UNCHANGED <<name, behaviour, alive, started, error_queue, query_lock,
                   sys_stderr_out, pushed>>

\* ---- write(*query): self._query_queue.put(query), then _check_for_errors
write(c) ==
    /\ Enter(c, "write", "check_empty")
    /\ query_queue' = Append(query_queue, Query("write", c, ncalls + 1))
    /\ query' = [query EXCEPT ![c] = Query("write", c, ncalls + 1)]
    /\ UNCHANGED <<name, behaviour, alive, started, response_queue,
                   error_queue, query_lock, sys_stderr_out, pushed>>

\* ---- ask(*query, timeout=None): the call, up to the with statement
ask(c) ==
    /\ Enter(c, "ask", "ask_lock")
    /\ query' = [query EXCEPT ![c] = NoQuery]
    /\ UNCHANGED <<name, behaviour, alive, started, query_queue,
                   response_queue, error_queue, query_lock, sys_stderr_out,
                   pushed>>

\* ask entering its with-block without waiting for the lock
AskAcquireNoLock(c) ==
    /\ pc[c] = "ask_lock"
    /\ query_lock' = c
    /\ pc' = [pc EXCEPT ![c] = "ask_put"]
    /\ hist' = [hist EXCEPT ![c].locked = TRUE]
    /\ UNCHANGED <<name, behaviour, alive, started, query_queue,
                   response_queue, error_queue, op, query, res, errstr,
                   result, sys_stderr_out, ncalls, pushed>>

\* with self.query_lock: blocks until no other caller holds the lock
AskAcquire(c) ==
    /\ pc[c] = "ask_lock"
    /\ query_lock = "free"
    /\ query_lock' = c
    /\ pc' = [pc EXCEPT ![c] = "ask_put"]
    /\ hist' = [hist EXCEPT ![c].locked = TRUE]
    /\ UNCHANGED <<name, behaviour, alive, started, query_queue,
                   response_queue, error_queue, op, query, res, errstr,
                   result, sys_stderr_out, ncalls, pushed>>

\* self._query_queue.put(query); halt asks the literal query 'halt'
AskPut(c) ==
    /\ pc[c] = "ask_put"
    /\ LET q == Query(IF op[c] = "ask" THEN "ask" ELSE "halt", c, hist[c].n)
       IN /\ query_queue' = Append(query_queue, q)
          /\ query' = [query EXCEPT ![c] = q]
    /\ pc' = [pc EXCEPT ![c] = "ask_get"]
    /\ UNCHANGED <<name, behaviour, alive, started, response_queue,
                   error_queue, query_lock, op, res, errstr, result,
                   sys_stderr_out, ncalls, pushed, hist>>

\* ask dequeuing a response but binding res to something else
AskGetOther(c) ==
    /\ pc[c] = "ask_get"
    /\ response_queue # <<>>
    /\ res' = [res EXCEPT ![c] = Query("ask", c, 0)]
    /\ response_queue' = Tail(response_queue)
    /\ hist' = [hist EXCEPT ![c].got = Head(response_queue)]
    /\ pc' = [pc EXCEPT ![c] = "check_empty"]
    /\ UNCHANGED <<name, behaviour, alive, started, query_queue,
                   error_queue, query_lock, op, query, errstr, result,
                   sys_stderr_out, ncalls, pushed>>

\* res = self._response_queue.get(timeout=timeout), a response arrived
AskGet(c) ==
    /\ pc[c] = "ask_get"
    /\ response_queue # <<>>
    /\ res' = [res EXCEPT ![c] = Head(response_queue)]
    /\ response_queue' = Tail(response_queue)
    /\ hist' = [hist EXCEPT ![c].got = Head(response_queue)]
    /\ pc' = [pc EXCEPT ![c] = "check_empty"]
    /\ UNCHANGED <<name, behaviour, alive, started, query_queue,
                   error_queue, query_lock, op, query, errstr, result,
                   sys_stderr_out, ncalls, pushed>>

\* a get without timeout: it never raises Empty
AskTimeoutBlocks(c) ==
    /\ pc[c] = "ask_get"
    /\ FALSE
    /\ UNCHANGED vars

\* the same get, the timeout elapsed with nothing on the queue: Empty
AskTimeout(c) ==
    /\ pc[c] = "ask_get"
    /\ response_queue = <<>>
    /\ hist' = [hist EXCEPT ![c].timed_out = TRUE]
    /\ pc' = [pc EXCEPT ![c] = "ask_except"]
    /\ UNCHANGED <<name, behaviour, alive, started, query_queue,
                   response_queue, error_queue, query_lock, op, query, res,
                   errstr, result, sys_stderr_out, ncalls, pushed>>

\* except Empty as e: if self._error_queue.empty(): raise e
AskExcept(c) ==
    /\ pc[c] = "ask_except"
    /\ IF error_queue = <<>>
       THEN /\ Leave(c, Raised("Empty", <<>>))
            /\ UNCHANGED hist
       ELSE /\ pc' = [pc EXCEPT ![c] = "check_empty"]
            /\ hist' = [hist EXCEPT ![c].err_seen = TRUE]
            /\ UNCHANGED <<result, query_lock>>
    /\ UNCHANGED <<name, behaviour, alive, started, query_queue,
                   response_queue, error_queue, op, query, res, errstr,
                   sys_stderr_out, ncalls, pushed>>

\* return res, at the end of ask: an unbound local is an UnboundLocalError;
\* inside halt the value is dropped and halt goes on to join
AskReturn(c) ==
    IF res[c] = NoQuery
    THEN Leave(c, Raised("UnboundLocalError", <<"res">>))
    ELSE IF op[c] = "ask"
         THEN Leave(c, Returned(res[c]))
         ELSE /\ pc' = [pc EXCEPT ![c] = "halt_join"]
              /\ query_lock' = "free"
              /\ UNCHANGED result

\* _check_for_errors: if not self._error_queue.empty()
CheckEmpty(c) ==
    /\ pc[c] = "check_empty"
    /\ IF error_queue # <<>>
       THEN /\ pc' = [pc EXCEPT ![c] = "check_get"]
            /\ UNCHANGED <<result, query_lock>>
       ELSE IF op[c] = "write"
            THEN Leave(c, Returned(NoQuery))
            ELSE AskReturn(c)
    /\ UNCHANGED <<name, behaviour, alive, started, query_queue,
                   response_queue, error_queue, op, query, res, errstr,
                   sys_stderr_out, ncalls, pushed, hist>>

\* errstr = self._error_queue.get() (blocks while the queue is empty);
\* print(errhead + '\n\n' + errstr, file=sys.stderr);
\* raise RuntimeError(errhead)
CheckGet(c) ==
    /\ pc[c] = "check_get"
    /\ error_queue # <<>>
    /\ errstr' = [errstr EXCEPT ![c] = Head(error_queue)]
    /\ error_queue' = Tail(error_queue)
    /\ sys_stderr_out' =
           Append(sys_stderr_out, errtext(name, Head(error_queue)))
    /\ hist' = [hist EXCEPT ![c].took = Head(error_queue)]
    /\ Leave(c, Raised("RuntimeError", errhead(name)))
    /\ UNCHANGED <<name, behaviour, alive, started, query_queue,
                   response_queue, op, query, res, ncalls, pushed>>

\* halt asking 'halt' without looking at is_alive
halt_enterAlways(c, method) ==
    /\ Enter(c, method, "ask_lock")
    /\ query' = [query EXCEPT ![c] = NoQuery]
    /\ UNCHANGED <<name, behaviour, alive, started, query_queue,
                   response_queue, error_queue, query_lock, sys_stderr_out,
                   pushed>>

\* ---- halt(): if self._server.is_alive(): self.ask('halt')
halt_enter(c, method) ==
    /\ Enter(c, method, IF alive THEN "ask_lock" ELSE "halt_join")
    /\ query' = [query EXCEPT ![c] = NoQuery]
    /\ UNCHANGED <<name, behaviour, alive, started, query_queue,
                   response_queue, error_queue, query_lock, sys_stderr_out,
                   pushed>>

halt(c) == halt_enter(c, "halt")

\* halt returning without joining the server process
HaltJoinNoWait(c) ==
    /\ pc[c] = "halt_join"
    /\ hist' = [hist EXCEPT ![c].joined = TRUE]
    /\ IF op[c] = "halt"
       THEN Leave(c, Returned(NoQuery))
       ELSE /\ pc' = [pc EXCEPT ![c] = "restart_start"]
            /\ UNCHANGED <<result, query_lock>>
    /\ UNCHANGED <<name, behaviour, alive, started, query_queue,
                   response_queue, error_queue, op, query, res, errstr,
                   sys_stderr_out, ncalls, pushed>>

\* self._server.join(): returns once the server process has exited
HaltJoin(c) ==
    /\ pc[c] = "halt_join"
    /\ ~alive
    /\ hist' = [hist EXCEPT ![c].joined = TRUE]
    /\ IF op[c] = "halt"
       THEN Leave(c, Returned(NoQuery))
       ELSE /\ pc' = [pc EXCEPT ![c] = "restart_start"]
            /\ UNCHANGED <<result, query_lock>>
    /\ UNCHANGED <<name, behaviour, alive, started, query_queue,
                   response_queue, error_queue, op, query, res, errstr,
                   sys_stderr_out, ncalls, pushed>>

\* ---- restart(): self.halt()
restart(c) == halt_enter(c, "restart")

\* self._start_server(), called with no argument
RestartStart(c) ==
    /\ pc[c] = "restart_start"
    /\ LET r == start_server(<<>>)
       IN /\ alive' = r.alive
          /\ started' = r.started
          /\ name' = r.name
          /\ IF r.raised
             THEN Leave(c, Raised("TypeError", <<"_start_server", "name">>))
             ELSE Leave(c, Returned(NoQuery))
    /\ UNCHANGED <<behaviour, query_queue, response_queue, error_queue, op,
                   query, res, errstr, sys_stderr_out, ncalls, pushed, hist>>

\* ---- the server process: _run_server calls the server behaviour
\* self._server_class(query_queue, response_queue, error_queue, extras).
\* "echo" answers every ask-style query (the halt sentinel included) with
\* the query itself and stops on halt; "quiet" does the same but stops on
\* halt without answering it; "hung" never reads a query; "faulty" may also
\* fail on a query (pushing an error string), drop it, or exit on its own.
\* No behaviour answers a fire-and-forget query.
ServerUnchanged ==
    UNCHANGED <<name, behaviour, started, query_lock, pc, op, query, res,
                errstr, result, sys_stderr_out, ncalls, hist>>

Serving == alive /\ behaviour # "hung" /\ query_queue # <<>>

\* reads a fire-and-forget query
ServerWrite ==
    /\ Serving
    /\ Head(query_queue).kind = "write"
    /\ query_queue' = Tail(query_queue)
    /\ UNCHANGED <<alive, response_queue, error_queue, pushed>>
    /\ ServerUnchanged

\* reads an ask-style query and answers it with the query itself
ServerEcho ==
    /\ Serving
    /\ Head(query_queue).kind = "ask"
    /\ query_queue' = Tail(query_queue)
    /\ response_queue' = Append(response_queue, Head(query_queue))
    /\ UNCHANGED <<alive, error_queue, pushed>>
    /\ ServerUnchanged

\* reads the reserved query 'halt' and stops its loop: the process exits
ServerHalt ==
    /\ Serving
    /\ Head(query_queue).kind = "halt"
    /\ query_queue' = Tail(query_queue)
    /\ alive' = FALSE
    /\ \E answer \in BOOLEAN :
          /\ behaviour = "echo" => answer
          /\ behaviour = "quiet" => ~answer
          /\ response_queue' = IF answer
                                THEN Append(response_queue, Head(query_queue))
                                ELSE response_queue
    /\ UNCHANGED <<error_queue, pushed>>
    /\ ServerUnchanged

\* fails on a query: writes an error string to the error queue, no response
ServerFail ==
    /\ Serving
    /\ behaviour = "faulty"
    /\ Head(query_queue).kind # "halt"
    /\ Cardinality(pushed) < MaxErrs
    /\ \E e \in ErrStrs \ pushed :
          /\ error_queue' = Append(error_queue, e)
          /\ pushed' = pushed \cup {e}
    /\ query_queue' = Tail(query_queue)
    /\ UNCHANGED <<alive, response_queue>>
    /\ ServerUnchanged

\* reads an ask-style query and never answers it
ServerDrop ==
    /\ Serving
    /\ behaviour = "faulty"
    /\ Head(query_queue).kind = "ask"
    /\ query_queue' = Tail(query_queue)
    /\ UNCHANGED <<alive, response_queue, error_queue, pushed>>
    /\ ServerUnchanged

\* the server behaviour returns on its own and the process exits
ServerExit ==
    /\ alive
    /\ behaviour = "faulty"
    /\ alive' = FALSE
    /\ UNCHANGED <<query_queue, response_queue, error_queue, pushed>>
    /\ ServerUnchanged

CallerStep(c) ==
    \/ write(c)
    \/ ask(c)
    \/ AskAcquire(c)
    \/ AskPut(c)
    \/ AskGet(c)
    \/ AskTimeout(c)
    \/ AskExcept(c)
    \/ CheckEmpty(c)
    \/ CheckGet(c)
    \/ halt(c)
    \/ HaltJoin(c)
    \/ restart(c)
    \/ RestartStart(c)

ServerStep ==
    \/ ServerWrite
    \/ ServerEcho
    \/ ServerHalt
    \/ ServerFail
    \/ ServerDrop
    \/ ServerExit

\* ------------------------------------------------------------- StreamQueue

\* a stream handle: a file object, or an _SQWriter bound to a stream name
File(id) == [type |-> "file", stream_name |-> <<id>>]
SQWriter(stream_name) == [type |-> "_SQWriter", stream_name |-> stream_name]
\* sys.__stdout__ and sys.__stderr__, the interpreter's original streams
dunder_stdout == File("__stdout__")
dunder_stderr == File("__stderr__")
\* the handles a process may have as stdout/stderr before connect: the
\* original ones or a replacement (a notebook installs its own streams)
OutFiles == {dunder_stdout, File("replaced_out")}
ErrFiles == {dunder_stderr, File("replaced_err")}
\* process names, as sequences of string pieces
ProcessNames == {<<"W1">>}
\* the word written to the writer w tells the stream it was written to:
\* stdout writes hello, stderr writes world
Word(w) == IF w.stream_name[Len(w.stream_name)] = " ERR" THEN "world"
                                                         ELSE "hello"
\* the texts written to the writer w: empty, a bare newline, two lines with
\* the second left open, and a line - closed on stdout, left open on stderr
Msgs(w) == {<<>>, <<"\n">>, <<Word(w), "\n", Word(w)>>,
            IF Word(w) = "hello" THEN <<"hello", "\n">> ELSE <<"world">>}
\* datetime.now().strftime('%H:%M:%S.%f')[:-3] of the time t
TimeStrs == <<"00:00:00.000", "00:00:01.000", "00:00:02.000", "00:00:03.000",
              "00:00:04.000", "00:00:05.000", "00:00:06.000", "00:00:07.000">>
timestr(t) == <<TimeStrs[t + 1]>>

MIN_READ_TIME == 3

\* a finished call of the StreamQueue specification and the exception it
\* raised ("none" when it returned)
Call(method, raised) ==
    [name |-> method, raised |-> raised, stream_name |-> <<>>, msg |-> <<>>,
     fails |-> "none", detached |-> FALSE]
NoCall == Call("none", "none")
\* a finished _SQWriter.write, with the writer's stream, the text written and
\* the faults of the environment during the call
WriteCall(w, msg, fails, detached, raised) ==
    [name |-> "write", raised |-> raised, stream_name |-> w.stream_name,
     msg |-> msg, fails |-> fails, detached |-> detached]

\* StreamQueue.__init__, the fields that get uses (_last_stream = None is
\* the empty tuple), with no call of get made yet
GetInit ==
    /\ get_pc = "idle"
    /\ out = <<>>
    /\ on_new_line = TRUE
    /\ last_stream = <<>>
    /\ text = <<>>
    /\ drained = <<>>

\* StreamQueue.__init__ (initial_streams = None is the empty tuple)
SQInit ==
    /\ sys_stdout \in OutFiles
    /\ sys_stderr \in ErrFiles
    /\ initial_streams = <<>>
    /\ queue = <<>>
    /\ last_read_ts = 0
    /\ now = 0
    /\ terminal = <<>>
    /\ sq_call = NoCall
    /\ nwrites = 0
    /\ connected_at = <<>>
    /\ enq = <<>>
    /\ GetInit

\* connect without the test for an existing connection
connectAgain(process_name) ==
    /\ initial_streams' = <<sys_stdout, sys_stderr>>
    /\ sys_stdout' = SQWriter(process_name)
    /\ sys_stderr' = SQWriter(process_name \o <<" ERR">>)
    /\ connected_at' = <<sys_stdout, sys_stderr>>
    /\ sq_call' = Call("connect", "none")
    /\ UNCHANGED <<queue, last_read_ts, now, terminal, nwrites, enq>>

\* connect(process_name)
connect(process_name) ==
    IF initial_streams # <<>>
    THEN /\ sq_call' = Call("connect", "RuntimeError: StreamQueue is already connected")
         /\ UNCHANGED <<sys_stdout, sys_stderr, initial_streams, queue,
                        last_read_ts, now, terminal, nwrites, enq, connected_at>>
    ELSE /\ initial_streams' = <<sys_stdout, sys_stderr>>
         /\ sys_stdout' = SQWriter(process_name)
         /\ sys_stderr' = SQWriter(process_name \o <<" ERR">>)
         /\ connected_at' = <<sys_stdout, sys_stderr>>
         /\ sq_call' = Call("connect", "none")
         /\ UNCHANGED <<queue, last_read_ts, now, terminal, nwrites, enq>>

\* disconnect putting back sys.__stdout__/sys.__stderr__ instead of the
\* recorded handles
disconnectDunder ==
    IF initial_streams = <<>>
    THEN /\ sq_call' = Call("disconnect", "RuntimeError: StreamQueue is not connected")
         /\ UNCHANGED <<sys_stdout, sys_stderr, initial_streams, queue,
                        last_read_ts, now, terminal, nwrites, enq, connected_at>>
    ELSE /\ sys_stdout' = dunder_stdout
         /\ sys_stderr' = dunder_stderr
         /\ initial_streams' = <<>>
         /\ sq_call' = Call("disconnect", "none")
         /\ UNCHANGED <<queue, last_read_ts, now, terminal, nwrites, enq,
                        connected_at>>

\* disconnect()
disconnect ==
    IF initial_streams = <<>>
    THEN /\ sq_call' = Call("disconnect", "RuntimeError: StreamQueue is not connected")
         /\ UNCHANGED <<sys_stdout, sys_stderr, initial_streams, queue,
                        last_read_ts, now, terminal, nwrites, enq, connected_at>>
    ELSE /\ sys_stdout' = initial_streams[1]
         /\ sys_stderr' = initial_streams[2]
         /\ initial_streams' = <<>>
         /\ sq_call' = Call("disconnect", "none")
         /\ UNCHANGED <<queue, last_read_ts, now, terminal, nwrites, enq,
                        connected_at>>

\* a writer that sends every text but the empty one to the terminal too
to_terminalAlways(msg) == TRUE

\* queue_age > self.MIN_READ_TIME and msg != '\n'
to_terminal(msg) ==
    now - last_read_ts > MIN_READ_TIME /\ msg # <<"\n">>

\* termstr = '[{} {}] {}'.format(*msgtuple), less one trailing newline
termstr(msgtuple) ==
    LET t == <<"[">> \o msgtuple[1] \o <<" ">> \o msgtuple[2] \o <<"] ">>
             \o msgtuple[3]
    IN IF t[Len(t)] = "\n" THEN SubSeq(t, 1, Len(t) - 1) ELSE t

\* write raising on a failure without putting the regular streams back
SQWriteKeepsStreams(w, msg, fails, detached) ==
    /\ nwrites < MaxWrites
    /\ nwrites' = nwrites + 1
    /\ LET msgtuple == <<timestr(now), w.stream_name, msg>>
       IN IF msg = <<>>
          THEN /\ sq_call' = WriteCall(w, msg, "none", detached, "none")
               /\ UNCHANGED <<sys_stdout, sys_stderr, queue, enq, terminal>>
          ELSE /\ queue' = IF fails = "put" THEN queue
                                            ELSE Append(queue, msgtuple)
               /\ enq' = IF fails = "put" THEN enq ELSE Append(enq, msgtuple)
               /\ terminal' = IF fails = "none" /\ to_terminal(msg) /\ ~detached
                              THEN Append(terminal, termstr(msgtuple))
                              ELSE terminal
               /\ IF fails = "none"
                  THEN /\ sq_call' = WriteCall(w, msg, "none", detached, "none")
                       /\ UNCHANGED <<sys_stdout, sys_stderr>>
                  ELSE /\ UNCHANGED <<sys_stdout, sys_stderr>>
                       /\ sq_call' = WriteCall(w, msg, fails, detached, "Exception")
    /\ UNCHANGED <<initial_streams, last_read_ts, now, connected_at>>

\* _SQWriter.write(msg) on the writer w.  fails says where an exception is
\* raised inside the try block ("put": by queue.put, "print": after the put,
\* while formatting or printing); detached says that printing to
\* sys.__stdout__ raises ValueError, which write swallows
SQWrite(w, msg, fails, detached) ==
    /\ nwrites < MaxWrites
    /\ nwrites' = nwrites + 1
    /\ LET msgtuple == <<timestr(now), w.stream_name, msg>>
       IN IF msg = <<>>
          THEN /\ sq_call' = WriteCall(w, msg, "none", detached, "none")
               /\ UNCHANGED <<sys_stdout, sys_stderr, queue, enq, terminal>>
          ELSE /\ queue' = IF fails = "put" THEN queue
                                            ELSE Append(queue, msgtuple)
               /\ enq' = IF fails = "put" THEN enq ELSE Append(enq, msgtuple)
               /\ terminal' = IF fails = "none" /\ to_terminal(msg) /\ ~detached
                              THEN Append(terminal, termstr(msgtuple))
                              ELSE terminal
               /\ IF fails = "none"
                  THEN /\ sq_call' = WriteCall(w, msg, "none", detached, "none")
                       /\ UNCHANGED <<sys_stdout, sys_stderr>>
                  ELSE /\ sys_stdout' = dunder_stdout
                       /\ sys_stderr' = dunder_stderr
                       /\ sq_call' = WriteCall(w, msg, fails, detached, "Exception")
    /\ UNCHANGED <<initial_streams, last_read_ts, now, connected_at>>

\* the process writes text to its current stdout or stderr; the terminal
\* can be found detached only by a write that gets to print to it
Write ==
    \E w \in {sys_stdout, sys_stderr} :
        /\ w.type = "_SQWriter"
        /\ \E msg \in Msgs(w), fails \in {"none", "put", "print"},
              detached \in BOOLEAN :
               /\ detached => /\ fails = "none"
                              /\ msg # <<>>
                              /\ to_terminal(msg)
               /\ SQWrite(w, msg, fails, detached)

\* time passes
Tick ==
    /\ now < MaxTime
    /\ now' = now + 1
    /\ UNCHANGED <<sys_stdout, sys_stderr, initial_streams, queue,
                   last_read_ts, terminal, sq_call, nwrites, enq, connected_at>>

\* line_head = '[{} {}] '.format(timestr, stream_name)
line_head(ts, stream_name) ==
    <<"[">> \o ts \o <<" ">> \o stream_name \o <<"] ">>

\* s.replace('\n', '\n' + head)
RECURSIVE replace(_, _)
replace(s, head) ==
    IF s = <<>> THEN <<>>
    ELSE (IF Head(s) = "\n" THEN <<"\n">> \o head ELSE <<Head(s)>>)
         \o replace(Tail(s), head)

\* the start of a piece that never opens a new line for another stream
line_startNoSwitch(m, new_line, last) ==
    IF new_line THEN line_head(m[1], m[2]) ELSE <<>>

\* what get puts before the text of the message tuple m: the line head on a
\* new line, a newline and the line head when the stream changes inside a
\* line, nothing when the stream goes on inside its line
line_start(m, new_line, last) ==
    IF new_line THEN line_head(m[1], m[2])
    ELSE IF m[2] # last THEN <<"\n">> \o line_head(m[1], m[2])
    ELSE <<>>

\* the line head repeated after every newline of the text, the last included
formattedWhole(m, new_line, last) ==
    line_start(m, new_line, last) \o replace(m[3], line_head(m[1], m[2]))

\* what one turn of the loop of get adds to out for the message tuple m
formatted(m, new_line, last) ==
    LET msg == m[3]
    IN line_start(m, new_line, last)
       \o replace(SubSeq(msg, 1, Len(msg) - 1), line_head(m[1], m[2]))
       \o <<msg[Len(msg)]>>

\* a get that starts every call at a new line of no stream
getFromNewLine ==
    /\ get_pc = "idle"
    /\ get_pc' = "loop"
    /\ out' = <<>>
    /\ on_new_line' = TRUE
    /\ last_stream' = <<>>
    /\ UNCHANGED <<text, drained>>
    /\ UNCHANGED sqvars

\* get(): out = ''
get ==
    /\ get_pc = "idle"
    /\ get_pc' = "loop"
    /\ out' = <<>>
    /\ UNCHANGED <<on_new_line, last_stream, text, drained>>
    /\ UNCHANGED sqvars

\* a turn of the loop that takes a second message off the queue and drops it
GetLoopDrops ==
    /\ get_pc = "loop"
    /\ queue # <<>>
    /\ LET m == Head(queue)
           msg == m[3]
       IN /\ out' = out \o formatted(m, on_new_line, last_stream)
          /\ on_new_line' = (msg[Len(msg)] = "\n")
          /\ last_stream' = m[2]
          /\ drained' = Append(drained, m)
    /\ queue' = IF Len(queue) > 1 THEN Tail(Tail(queue)) ELSE Tail(queue)
    /\ UNCHANGED <<get_pc, text>>
    /\ UNCHANGED <<sys_stdout, sys_stderr, initial_streams, last_read_ts, now,
                   terminal, sq_call, nwrites, connected_at, enq>>

\* one turn of `while not self.queue.empty()`
GetLoop ==
    /\ get_pc = "loop"
    /\ queue # <<>>
    /\ LET m == Head(queue)
           msg == m[3]
       IN /\ out' = out \o formatted(m, on_new_line, last_stream)
          /\ on_new_line' = (msg[Len(msg)] = "\n")
          /\ last_stream' = m[2]
          /\ drained' = Append(drained, m)
    /\ queue' = Tail(queue)
    /\ UNCHANGED <<get_pc, text>>
    /\ UNCHANGED <<sys_stdout, sys_stderr, initial_streams, last_read_ts, now,
                   terminal, sq_call, nwrites, connected_at, enq>>

\* a return of get that sets the time of the last read only when it read
GetReturnIfRead ==
    /\ get_pc = "loop"
    /\ queue = <<>>
    /\ last_read_ts' = IF out # <<>> THEN now ELSE last_read_ts
    /\ text' = text \o out
    /\ get_pc' = "idle"
    /\ out' = <<>>
    /\ sq_call' = Call("get", "none")
    /\ UNCHANGED <<on_new_line, last_stream, drained>>
    /\ UNCHANGED <<sys_stdout, sys_stderr, initial_streams, queue, now,
                   terminal, nwrites, connected_at, enq>>

\* the queue is empty: last_read_ts.value = time.time(); return out
GetReturn ==
    /\ get_pc = "loop"
    /\ queue = <<>>
    /\ last_read_ts' = now
    /\ text' = text \o out
    /\ get_pc' = "idle"
    /\ out' = <<>>
    /\ sq_call' = Call("get", "none")
    /\ UNCHANGED <<on_new_line, last_stream, drained>>
    /\ UNCHANGED <<sys_stdout, sys_stderr, initial_streams, queue, now,
                   terminal, nwrites, connected_at, enq>>

\* ---- QcodesProcess
\* the text print_exc() writes to sys.stderr
Trace == <<"Traceback", "\n">>

NoRun == [connected |-> FALSE, disconnects |-> 0, trace_to |-> "none",
          redirected |-> FALSE]

\* QcodesProcess.__init__ and start(): the process is about to call run.
\* stream_queue is set when queue_streams and in_notebook() hold
RunInit ==
    /\ run_pc = "start"
    /\ stream_queue \in BOOLEAN
    /\ failure = "none"
    /\ run_result = "none"
    /\ run_hist = NoRun

\* no QcodesProcess is modelled
RunIdle ==
    /\ run_pc = "none"
    /\ stream_queue = FALSE
    /\ failure = "none"
    /\ run_result = "none"
    /\ run_hist = NoRun

\* run(): if self.stream_queue: self.stream_queue.connect(str(self.name)).
\* An exception of connect leaves run before its try block
RunStart ==
    /\ run_pc = "start"
    /\ IF stream_queue
       THEN \E process_name \in ProcessNames :
                /\ connect(process_name)
                /\ IF sq_call'.raised = "none"
                   THEN /\ run_pc' = "try"
                        /\ run_hist' = [run_hist EXCEPT !.connected = TRUE]
                        /\ run_result' = run_result
                   ELSE /\ run_pc' = "done"
                        /\ run_result' = "raised"
                        /\ run_hist' = run_hist
       ELSE /\ run_pc' = "try"
            /\ UNCHANGED <<run_result, run_hist>>
            /\ UNCHANGED sqvars
    /\ UNCHANGED <<stream_queue, failure>>

\* super().run(): the target writes to a redirected stream; an exception of
\* the write escapes the target.  One write is left for the trace
TargetWrite ==
    /\ run_pc = "try"
    /\ nwrites + 1 < MaxWrites
    /\ \E w \in {sys_stdout, sys_stderr} :
          /\ w.type = "_SQWriter"
          /\ \E msg \in Msgs(w), fails \in {"none", "put", "print"},
                detached \in BOOLEAN :
                 /\ detached => /\ fails = "none"
                                /\ msg # <<>>
                                /\ to_terminal(msg)
                 /\ SQWrite(w, msg, fails, detached)
    /\ IF sq_call'.raised = "none"
       THEN UNCHANGED <<run_pc, failure>>
       ELSE run_pc' = "except" /\ failure' = "write"
    /\ UNCHANGED <<stream_queue, run_result, run_hist>>

\* super().run(): the target returns
TargetReturn ==
    /\ run_pc = "try"
    /\ run_pc' = "finally"
    /\ UNCHANGED <<stream_queue, failure, run_result, run_hist>>
    /\ UNCHANGED sqvars

\* super().run(): the target raises
TargetRaise ==
    /\ run_pc = "try"
    /\ run_pc' = "except"
    /\ failure' = "target"
    /\ UNCHANGED <<stream_queue, run_result, run_hist>>
    /\ UNCHANGED sqvars

\* an except block that prints nothing
RunExceptSilent ==
    /\ run_pc = "except"
    /\ run_pc' = "finally"
    /\ run_hist' = [run_hist EXCEPT !.trace_to = "nowhere"]
    /\ UNCHANGED sqvars
    /\ UNCHANGED <<stream_queue, failure, run_result>>

\* except: print_exc() writes the trace to the current sys.stderr; an
\* exception of that write goes on after the finally block
RunExcept ==
    /\ run_pc = "except"
    /\ run_pc' = "finally"
    /\ IF sys_stderr.type = "_SQWriter"
       THEN /\ \E fails \in {"none", "put", "print"}, detached \in BOOLEAN :
                 /\ detached => fails = "none" /\ to_terminal(Trace)
                 /\ SQWrite(sys_stderr, Trace, fails, detached)
            /\ run_hist' = [run_hist EXCEPT
                               !.trace_to = "_SQWriter",
                               !.redirected = (initial_streams # <<>>)]
            /\ run_result' = IF sq_call'.raised = "none" THEN run_result
                                                         ELSE "raising"
       ELSE /\ run_hist' = [run_hist EXCEPT !.trace_to = "file"]
            /\ UNCHANGED run_result
            /\ UNCHANGED sqvars
    /\ UNCHANGED <<stream_queue, failure>>

\* a finally block that disconnects only after a target that returned
RunFinallyOnReturn ==
    /\ run_pc = "finally"
    /\ run_pc' = "done"
    /\ IF stream_queue /\ initial_streams # <<>> /\ failure = "none"
       THEN /\ disconnect
            /\ run_hist' = [run_hist EXCEPT !.disconnects = @ + 1]
       ELSE /\ UNCHANGED run_hist
            /\ UNCHANGED sqvars
    /\ run_result' = IF run_result = "raising" THEN "raised" ELSE "returned"
    /\ UNCHANGED <<stream_queue, failure>>

\* finally: disconnect if there is a stream queue and it is connected
RunFinally ==
    /\ run_pc = "finally"
    /\ run_pc' = "done"
    /\ IF stream_queue /\ initial_streams # <<>>
       THEN /\ disconnect
            /\ run_hist' = [run_hist EXCEPT !.disconnects = @ + 1]
       ELSE /\ UNCHANGED run_hist
            /\ UNCHANGED sqvars
    /\ run_result' = IF run_result = "raising" THEN "raised" ELSE "returned"
    /\ UNCHANGED <<stream_queue, failure>>

\* the StreamQueue part of the state while the ServerManager runs
SQIdle ==
    /\ sys_stdout = dunder_stdout
    /\ sys_stderr = dunder_stderr
    /\ initial_streams = <<>>
    /\ queue = <<>>
    /\ last_read_ts = 0
    /\ now = 0
    /\ terminal = <<>>
    /\ sq_call = NoCall
    /\ nwrites = 0
    /\ connected_at = <<>>
    /\ enq = <<>>
    /\ GetInit

\* the ServerManager part of the state while the StreamQueue runs
SMIdle == SMInit /\ behaviour = "echo"

\* ------------------------------------------------------------ set_mp_method
\* the start methods of multiprocessing, and a name that is none of them
Methods == {"fork", "spawn", "forkserver"}
\* the start method of a process that never fixed one (unix)
DefaultMethod == "fork"

MP_ERR == "context has already been set"

MPCall(method, force, raised, before) ==
    [method |-> method, force |-> force, raised |-> raised, before |-> before]

\* the interpreter has started; no start method is fixed
MPInit ==
    /\ actual_context = "none"
    /\ mp_call = MPCall("none", FALSE, "none", "none")
    /\ nsets = 0

MPIdle == MPInit

\* mp.set_start_method(method, force=force) on the context ctx: the context
\* it leaves and the exception it raises
mp_set_start_method(ctx, method, force) ==
    IF ctx # "none" /\ ~force
    THEN [ctx |-> ctx, raised |-> <<"RuntimeError", MP_ERR>>]
    ELSE IF method \notin Methods
    THEN [ctx |-> ctx, raised |-> <<"ValueError", "cannot find context">>]
    ELSE [ctx |-> method, raised |-> <<>>]

\* mp.get_start_method() on the context ctx: a process that has fixed no
\* start method fixes the default one
mp_get_start_method(ctx) == IF ctx = "none" THEN DefaultMethod ELSE ctx

\* mp.set_start_method alone: the error of a context that is set is raised
set_mp_methodBare(method, force) ==
    LET set == mp_set_start_method(actual_context, method, force)
    IN /\ nsets < MaxSets
       /\ nsets' = nsets + 1
       /\ actual_context' = set.ctx
       /\ mp_call' = MPCall(method, force,
                            IF set.raised = <<>> THEN "none"
                            ELSE set.raised[1], actual_context)

\* set_mp_method(method, force)
set_mp_method(method, force) ==
    LET set == mp_set_start_method(actual_context, method, force)
        reraised == set.raised # <<>> /\ set.raised # <<"RuntimeError", MP_ERR>>
        mp_method == mp_get_start_method(set.ctx)
    IN /\ nsets < MaxSets
       /\ nsets' = nsets + 1
       /\ IF reraised
          THEN /\ actual_context' = set.ctx
               /\ mp_call' = MPCall(method, force, set.raised[1],
                                    actual_context)
          ELSE /\ actual_context' = mp_method
               /\ mp_call' = MPCall(method, force,
                                    IF mp_method # method THEN "RuntimeError"
                                                          ELSE "none",
                                    actual_context)

\* some code of the process calls mp.get_start_method()
get_start_method ==
    /\ actual_context = "none"
    /\ actual_context' = mp_get_start_method(actual_context)
    /\ UNCHANGED <<mp_call, nsets>>

\* ------------------------------------------------------------ Keithley2450
\* the keys of Source2450.function_modes and of Sense2450.function_modes
SourceModes == {"current", "voltage"}
SenseModes == {"current", "resistance", "voltage"}

\* function_modes[key]["name"]: the val_mapping of the two parameters
source_name(key) ==
    CASE key = "current" -> "CURR"
      [] key = "voltage" -> "VOLT"

sense_name(key) ==
    CASE key = "current" -> "\"CURR:DC\""
      [] key = "resistance" -> "\"RES\""
      [] key = "voltage" -> "\"VOLT:DC\""

\* inverse_val_mapping[value] of the two parameters
inverse_source(value) == CHOOSE key \in SourceModes : source_name(key) = value
inverse_sense(value) == CHOOSE key \in SenseModes : sense_name(key) = value

\* _sweep_arguments = {}
NoSetup == <<>>
\* the arguments of sweep_setup that get_sweep_axis reads
Setups == {[start |-> 0, stop |-> 2, step_count |-> 3],
           [start |-> 1, stop |-> 3, step_count |-> 2]}

\* np.linspace(start, stop, num): num points, the first start, the last stop
linspace(start, stop, num) ==
    [i \in 1..num |-> start + ((i - 1) * (stop - start)) \div (num - 1)]

\* a value a call returns when it returns none
NoValue == <<>>

KCall(call, arg, raised, sent, value) ==
    [call |-> call, arg |-> arg, raised |-> raised, sent |-> sent,
     value |-> value]

NoKHist ==
    [any_set |-> FALSE, source_set |-> FALSE,
     made_since |-> [m \in SourceModes |-> FALSE]]

\* the driver is constructed: no parameter holds a value, no sweep is set up,
\* no sweep parameter has setpoints
KDriverInit ==
    /\ source_function = "none"
    /\ sense_function = "none"
    /\ sweep_arguments = [m \in SourceModes |-> NoSetup]
    /\ setpoints = [m \in SenseModes |-> "none"]
    /\ k_call = KCall("none", "none", "none", <<>>, NoValue)
    /\ k_hist = NoKHist

\* the driver is connected to an instrument in any of its function settings
KInit ==
    /\ instr_source \in {source_name(m) : m \in SourceModes}
    /\ instr_sense \in {sense_name(m) : m \in SenseModes}
    /\ KDriverInit

\* the driver while the rest of the program runs: never called
KIdle ==
    /\ instr_source = source_name("voltage")
    /\ instr_sense = sense_name("current")
    /\ KDriverInit

\* parameter.get_latest() or parameter(): the value the parameter holds, or
\* when it holds none, the answer of the instrument to the query
get_latest_or_get(held, answer, get_cmd) ==
    IF held # "none" THEN [value |-> held, sent |-> <<>>]
                     ELSE [value |-> answer, sent |-> <<get_cmd>>]

\* the property source: the function of the source module it returns, and
\* the query it sent
source ==
    get_latest_or_get(source_function, inverse_source(instr_source),
                      <<":SOUR:FUNC?">>)

\* the property sense, sense_function holding the value held
sense(held) ==
    get_latest_or_get(held, inverse_sense(instr_sense), <<":SENS:FUNC?">>)

\* a sweep_reset that keeps the arguments
sweep_resetKeeps(args, m) == args

\* Source2450.sweep_reset() on the source module m
sweep_reset(args, m) == [args EXCEPT ![m] = NoSetup]

\* a setter that writes the command whatever the sense function
set_source_functionUnchecked(key) ==
    LET value == source_name(key)
        now_sense == inverse_sense(instr_sense)
        new_source == inverse_source(value)
        active_sense == sense(now_sense)
    IN /\ sense_function' = now_sense
       /\ instr_source' = value
       /\ setpoints' = [setpoints EXCEPT ![active_sense.value] = new_source]
       /\ sweep_arguments' = sweep_reset(sweep_arguments, new_source)
       /\ source_function' = key
       /\ k_call' = KCall("source_function", key, "none",
                          <<<<":SENS:FUNC?">>, <<":SOUR:FUNC", value>>>>
                          \o active_sense.sent, NoValue)
       /\ k_hist' = [any_set |-> TRUE, source_set |-> TRUE,
                     made_since |-> [m \in SourceModes |-> FALSE]]
       /\ UNCHANGED instr_sense

\* source_function(key): the parameter maps key to its name, calls
\* _set_source_function(name) and, when that returns, holds key
set_source_function(key) ==
    LET value == source_name(key)
        \* self.sense_function(): asks :SENS:FUNC?, and the parameter
        \* holds the answer
        now_sense == inverse_sense(instr_sense)
        new_source == inverse_source(value)
        active_sense == sense(now_sense)
    IN /\ sense_function' = now_sense
       /\ IF now_sense = "resistance"
          THEN /\ k_call' = KCall("source_function", key, "RuntimeError",
                                  <<<<":SENS:FUNC?">>>>, NoValue)
               /\ UNCHANGED <<instr_source, instr_sense, source_function,
                              sweep_arguments, setpoints, k_hist>>
          ELSE /\ instr_source' = value
               /\ setpoints' =
                      [setpoints EXCEPT ![active_sense.value] = new_source]
               /\ sweep_arguments' = sweep_reset(sweep_arguments, new_source)
               /\ source_function' = key
               /\ k_call' = KCall("source_function", key, "none",
                                  <<<<":SENS:FUNC?">>,
                                    <<":SOUR:FUNC", value>>>>
                                  \o active_sense.sent, NoValue)
               /\ k_hist' = [any_set |-> TRUE, source_set |-> TRUE,
                             made_since |-> [m \in SourceModes |-> FALSE]]
               /\ UNCHANGED instr_sense

\* a setter that leaves the setpoints of the sweep parameters alone
set_sense_functionKeeps(key) ==
    LET value == sense_name(key)
        active_source == source
    IN /\ instr_sense' = value
       /\ source_function' = active_source.value
       /\ sense_function' = key
       /\ k_call' = KCall("sense_function", key, "none",
                          <<<<":SENS:FUNC", value>>>> \o active_source.sent,
                          NoValue)
       /\ k_hist' = [k_hist EXCEPT !.any_set = TRUE]
       /\ UNCHANGED <<instr_source, sweep_arguments, setpoints>>

\* sense_function(key): the parameter maps key to its name, calls
\* _set_sense_function(name) and, when that returns, holds key
set_sense_function(key) ==
    LET value == sense_name(key)
        new_sense == inverse_sense(value)
        \* self.source: source_function holds the answer when it asks
        active_source == source
    IN /\ instr_sense' = value
       /\ setpoints' = [setpoints EXCEPT ![new_sense] = active_source.value]
       /\ source_function' = active_source.value
       /\ sense_function' = key
       /\ k_call' = KCall("sense_function", key, "none",
                          <<<<":SENS:FUNC", value>>>> \o active_source.sent,
                          NoValue)
       /\ k_hist' = [k_hist EXCEPT !.any_set = TRUE]
       /\ UNCHANGED <<instr_source, sweep_arguments>>

\* source_function(): asks :SOUR:FUNC?, and the parameter holds the answer
get_source_function ==
    /\ source_function' = inverse_source(instr_source)
    /\ k_call' = KCall("source_function", "none", "none",
                       <<<<":SOUR:FUNC?">>>>, inverse_source(instr_source))
    /\ UNCHANGED <<instr_source, instr_sense, sense_function,
                   sweep_arguments, setpoints, k_hist>>

\* sense_function(): asks :SENS:FUNC?, and the parameter holds the answer
get_sense_function ==
    /\ sense_function' = inverse_sense(instr_sense)
    /\ k_call' = KCall("sense_function", "none", "none",
                       <<<<":SENS:FUNC?">>>>, inverse_sense(instr_sense))
    /\ UNCHANGED <<instr_source, instr_sense, source_function,
                   sweep_arguments, setpoints, k_hist>>

\* Source2450.sweep_setup(start, stop, step_count) on the source module m
sweep_setup(m, setup) ==
    /\ sweep_arguments' = [sweep_arguments EXCEPT ![m] = setup]
    /\ k_call' = KCall("sweep_setup", m, "none", <<>>, NoValue)
    /\ k_hist' = [k_hist EXCEPT !.made_since[m] = TRUE]
    /\ UNCHANGED <<instr_source, instr_sense, source_function,
                   sense_function, setpoints>>

\* Source2450.get_sweep_axis() on the source module m: what it raises and
\* what it returns
sweep_axis_of(args) ==
    IF args = NoSetup
    THEN [raised |-> "ValueError", value |-> NoValue]
    ELSE [raised |-> "none",
          value |-> linspace(args.start, args.stop, args.step_count)]

get_sweep_axis(m) ==
    /\ k_call' = KCall("get_sweep_axis", m,
                       sweep_axis_of(sweep_arguments[m]).raised, <<>>,
                       sweep_axis_of(sweep_arguments[m]).value)
    /\ UNCHANGED <<instr_source, instr_sense, source_function,
                   sense_function, sweep_arguments, setpoints, k_hist>>

\* Keithley2450.npts(): len(self.source.get_sweep_axis())
npts ==
    LET active_source == source
        axis == sweep_axis_of(sweep_arguments[active_source.value])
    IN /\ source_function' = active_source.value
       /\ k_call' = KCall("npts", active_source.value, axis.raised,
                          active_source.sent,
                          IF axis.raised = "none" THEN <<Len(axis.value)>>
                                                  ELSE NoValue)
       /\ UNCHANGED <<instr_source, instr_sense, sense_function,
                      sweep_arguments, setpoints, k_hist>>

KSpecInit == SMIdle /\ SQIdle /\ RunIdle /\ MPIdle /\ KInit

KNext ==
    \/ \E key \in SourceModes :
          set_source_function(key)
          /\ UNCHANGED <<smvars, sqvars, getvars, runvars, mpvars>>
    \/ \E key \in SenseModes :
          set_sense_function(key)
          /\ UNCHANGED <<smvars, sqvars, getvars, runvars, mpvars>>
    \/ get_source_function
       /\ UNCHANGED <<smvars, sqvars, getvars, runvars, mpvars>>
    \/ get_sense_function
       /\ UNCHANGED <<smvars, sqvars, getvars, runvars, mpvars>>
    \/ \E m \in SourceModes, setup \in Setups :
          sweep_setup(m, setup)
          /\ UNCHANGED <<smvars, sqvars, getvars, runvars, mpvars>>
    \/ \E m \in SourceModes :
          get_sweep_axis(m)
          /\ UNCHANGED <<smvars, sqvars, getvars, runvars, mpvars>>
    \/ npts /\ UNCHANGED <<smvars, sqvars, getvars, runvars, mpvars>>

\* one driver, called again and again
KSpec == KSpecInit /\ [][KNext]_vars

\* the rest of the state while the start method is set
MPSpecInit == SMIdle /\ SQIdle /\ RunIdle /\ MPInit /\ KIdle

MPNext ==
    \/ \E method \in Methods \cup {"bogus"}, force \in BOOLEAN :
          set_mp_method(method, force)
          /\ UNCHANGED <<smvars, sqvars, getvars, runvars, kvars>>
    \/ get_start_method /\ UNCHANGED <<smvars, sqvars, getvars, runvars, kvars>>

\* one process setting its start method again and again
MPSpec == MPSpecInit /\ [][MPNext]_vars

OtherIdle == MPIdle /\ KIdle

\* ---------------------------------------------------------- specifications
Init == SMInit /\ SQIdle /\ RunIdle /\ OtherIdle

Next ==
    \/ \E c \in Callers : write(c) /\ UNCHANGED <<sqvars, getvars, runvars, othervars>>
    \/ \E c \in Callers : ask(c) /\ UNCHANGED <<sqvars, getvars, runvars, othervars>>
    \/ \E c \in Callers : AskAcquire(c) /\ UNCHANGED <<sqvars, getvars, runvars, othervars>>
    \/ \E c \in Callers : AskPut(c) /\ UNCHANGED <<sqvars, getvars, runvars, othervars>>
    \/ \E c \in Callers : AskGet(c) /\ UNCHANGED <<sqvars, getvars, runvars, othervars>>
    \/ \E c \in Callers : AskTimeout(c) /\ UNCHANGED <<sqvars, getvars, runvars, othervars>>
    \/ \E c \in Callers : AskExcept(c) /\ UNCHANGED <<sqvars, getvars, runvars, othervars>>
    \/ \E c \in Callers : CheckEmpty(c) /\ UNCHANGED <<sqvars, getvars, runvars, othervars>>
    \/ \E c \in Callers : CheckGet(c) /\ UNCHANGED <<sqvars, getvars, runvars, othervars>>
    \/ \E c \in Callers : halt(c) /\ UNCHANGED <<sqvars, getvars, runvars, othervars>>
    \/ \E c \in Callers : HaltJoin(c) /\ UNCHANGED <<sqvars, getvars, runvars, othervars>>
    \/ \E c \in Callers : restart(c) /\ UNCHANGED <<sqvars, getvars, runvars, othervars>>
    \/ \E c \in Callers : RestartStart(c) /\ UNCHANGED <<sqvars, getvars, runvars, othervars>>
    \/ ServerWrite /\ UNCHANGED <<sqvars, getvars, runvars, othervars>>
    \/ ServerEcho /\ UNCHANGED <<sqvars, getvars, runvars, othervars>>
    \/ ServerHalt /\ UNCHANGED <<sqvars, getvars, runvars, othervars>>
    \/ ServerFail /\ UNCHANGED <<sqvars, getvars, runvars, othervars>>
    \/ ServerDrop /\ UNCHANGED <<sqvars, getvars, runvars, othervars>>
    \/ ServerExit /\ UNCHANGED <<sqvars, getvars, runvars, othervars>>

\* the ServerManager with its callers and its server process
Spec == Init /\ [][Next]_vars

\* the same, where every caller that can take a step eventually takes one:
\* each caller is a running thread or process, and a timed wait ends
FairSpec == Spec /\ \A c \in Callers : WF_vars(CallerStep(c) /\ UNCHANGED <<sqvars, getvars, runvars, othervars>>)

SQSpecInit == SMIdle /\ SQInit /\ RunIdle /\ OtherIdle

SQNext ==
    \/ \E process_name \in ProcessNames :
          connect(process_name) /\ UNCHANGED <<smvars, getvars, runvars, othervars>>
    \/ disconnect /\ UNCHANGED <<smvars, getvars, runvars, othervars>>
    \/ Write /\ UNCHANGED <<smvars, getvars, runvars, othervars>>
    \/ Tick /\ UNCHANGED <<smvars, getvars, runvars, othervars>>

\* one process connecting, writing and disconnecting its streams
SQSpec == SQSpecInit /\ [][SQNext]_vars

\* the state after StreamQueue.__init__ and connect('W1') in a process whose
\* streams were the interpreter's own
DrainInit ==
    /\ SMIdle
    /\ sys_stdout = SQWriter(<<"W1">>)
    /\ sys_stderr = SQWriter(<<"W1", " ERR">>)
    /\ initial_streams = <<dunder_stdout, dunder_stderr>>
    /\ queue = <<>>
    /\ last_read_ts = 0
    /\ now = 0
    /\ terminal = <<>>
    /\ sq_call = Call("connect", "none")
    /\ nwrites = 0
    /\ connected_at = <<dunder_stdout, dunder_stderr>>
    /\ enq = <<>>
    /\ GetInit
    /\ RunIdle
    /\ OtherIdle

DrainNext ==
    \/ Write /\ UNCHANGED <<smvars, getvars, runvars, othervars>>
    \/ Tick /\ UNCHANGED <<smvars, getvars, runvars, othervars>>
    \/ get /\ UNCHANGED <<smvars, runvars, othervars>>
    \/ GetLoop /\ UNCHANGED <<smvars, runvars, othervars>>
    \/ GetReturn /\ UNCHANGED <<smvars, runvars, othervars>>

RunSpecInit == SMIdle /\ SQInit /\ RunInit /\ OtherIdle

RunNext ==
    \/ RunStart /\ UNCHANGED <<smvars, getvars, othervars>>
    \/ TargetWrite /\ UNCHANGED <<smvars, getvars, othervars>>
    \/ TargetReturn /\ UNCHANGED <<smvars, getvars, othervars>>
    \/ TargetRaise /\ UNCHANGED <<smvars, getvars, othervars>>
    \/ RunExcept /\ UNCHANGED <<smvars, getvars, othervars>>
    \/ RunFinally /\ UNCHANGED <<smvars, getvars, othervars>>
    \/ Tick /\ UNCHANGED <<smvars, getvars, runvars, othervars>>

\* one QcodesProcess running its target
RunSpec == RunSpecInit /\ [][RunNext]_vars

\* a connected process writing to its two _SQWriters while the consumer
\* calls get
DrainSpec == DrainInit /\ [][DrainNext]_vars

\* ------------------------------------------------------------- properties

\* the call of c has ended
Ended(c) == pc[c] = "idle" /\ result[c].kind # "none"
\* c is inside the with-block of ask, from the put to the end of the block
InAskBlock(c) ==
    /\ op[c] # "write"
    /\ pc[c] \in {"ask_put", "ask_get", "ask_except", "check_empty",
                  "check_get"}
\* c has put its query and has not finished waiting for the response
InExchange(c) == pc[c] \in {"ask_put", "ask_get"}
\* the text e was printed to sys.stderr under the header of the manager
Printed(e) ==
    \E i \in 1..Len(sys_stderr_out) : sys_stderr_out[i] = errtext(name, e)

\* C1: with an echoing server and two callers that each call ask, every ask
\* that returns returns the response to the query that this call enqueued.
C1_OwnResponse ==
    (behaviour = "echo" /\ \A d \in Callers : op[d] = "ask")
    => \A c \in Callers :
          (Ended(c) /\ result[c].kind = "return")
          => result[c].val = query[c]

\* C2: at most one caller is between enqueuing its query and the end of its
\* wait on the response queue (indeed inside the with-block of ask), and that
\* caller holds query_lock.
C2_MutualExclusion ==
    \A c, d \in Callers :
        /\ (c # d /\ InAskBlock(c)) => ~InAskBlock(d)
        /\ InExchange(c) => query_lock = c

C2_Witness ==
    \E c, d \in Callers :
        /\ c # d
        /\ pc[c] = "ask_get"
        /\ pc[d] = "ask_lock"
        /\ query[c].kind = "ask"

\* C3: with a hung server, which never writes a response or an error, every
\* ask that is called ends, and it ends by raising Empty (the timeout).
C3_AskTerminates ==
    \A c \in Callers :
        (behaviour = "hung" /\ pc[c] = "ask_lock")
        ~> (pc[c] = "idle" /\ result[c].kind = "Empty")

C3_Witness ==
    \E c \in Callers :
        /\ behaviour = "hung"
        /\ op[c] = "ask"
        /\ Ended(c)
        /\ hist[c].timed_out
        /\ result[c].kind = "Empty"

\* C4: when the wait of ask timed out, ask ends by consuming an error message
\* and raising RuntimeError if the except clause found the error queue
\* non-empty, and by raising Empty if it found it empty.
C4_TimeoutOutcome ==
    \A c \in Callers :
        (Ended(c) /\ hist[c].timed_out)
        => IF hist[c].err_seen
           THEN result[c].kind = "RuntimeError" /\ hist[c].took # "none"
           ELSE result[c].kind = "Empty"

\* C5 as stated: the call that takes an error string off the error queue
\* raises RuntimeError, and the raised error contains the error string and
\* the name of the manager.
C5_ErrorInRaised ==
    \A c \in Callers :
        (Ended(c) /\ hist[c].took # "none")
        => /\ result[c].kind = "RuntimeError"
           /\ Contains(result[c].args, name)
           /\ Contains(result[c].args, hist[c].took)

\* C5 amended: when an error string e is on the error queue as write or ask
\* is called, then by the end of the call e has been taken off the queue and
\* printed to sys.stderr under the header naming the manager; the call that
\* took it raised RuntimeError with that header, which contains the name of
\* the manager and not e; and the call itself is the one that took e unless
\* another caller was inside a call at the same time.
C5_ErrorRaised ==
    \A c \in Callers :
        /\ (Ended(c) /\ op[c] \in {"write", "ask"}
                /\ hist[c].err_at_call # <<>>)
           => LET e == Head(hist[c].err_at_call)
              IN /\ ~Contains(error_queue, e)
                 /\ Printed(e)
                 /\ hist[c].alone => hist[c].took = e
        /\ (Ended(c) /\ hist[c].took # "none")
           => /\ result[c].kind = "RuntimeError"
              /\ result[c].args = errhead(name)
              /\ Contains(result[c].args, name)
              /\ ~Contains(result[c].args, hist[c].took)
              /\ Printed(hist[c].took)

C5_Witness ==
    \E c \in Callers :
        /\ Ended(c)
        /\ op[c] = "write"
        /\ hist[c].err_at_call # <<>>
        /\ hist[c].took = Head(hist[c].err_at_call)
        /\ result[c].kind = "RuntimeError"

\* C6 as stated: an ask that dequeued a response returns exactly that
\* response.
C6_DequeuedReturned ==
    \A c \in Callers :
        (Ended(c) /\ hist[c].got # NoQuery /\ op[c] = "ask")
        => result[c] = Returned(hist[c].got)

\* C6 amended: an ask that dequeued a response and ends either returns
\* exactly that response, having found the error queue empty, or has taken
\* an error message and raises RuntimeError, the response being discarded;
\* and ask returns nothing but the response it dequeued.
C6_ReturnedOrError ==
    \A c \in Callers :
        /\ (Ended(c) /\ hist[c].got # NoQuery /\ op[c] = "ask")
           => IF hist[c].took = "none"
              THEN result[c] = Returned(hist[c].got)
              ELSE result[c].kind = "RuntimeError"
        /\ (Ended(c) /\ op[c] = "ask" /\ result[c].kind = "return")
           => (hist[c].got # NoQuery /\ result[c].val = hist[c].got)

C6_Witness ==
    \E c \in Callers :
        /\ Ended(c)
        /\ op[c] = "ask"
        /\ hist[c].got # NoQuery
        /\ hist[c].took # "none"
        /\ result[c].kind = "RuntimeError"

\* C7: halt called when the server process has exited puts no query on the
\* query queue, is not blocked by join, and returns without raising.
C7_HaltExited ==
    \A c \in Callers :
        (op[c] = "halt" /\ ~hist[c].was_alive)
        => /\ query[c] = NoQuery
           /\ \A i \in 1..Len(query_queue) : query_queue[i].n # hist[c].n
           /\ ~hist[c].locked
           /\ pc[c] \in {"halt_join", "idle"}
           /\ pc[c] = "halt_join" => ~alive
           /\ pc[c] = "idle" => result[c] = Returned(NoQuery)

C7_Witness ==
    \E c \in Callers :
        /\ op[c] = "halt"
        /\ ~hist[c].was_alive
        /\ Ended(c)
        /\ query_queue # <<>>

\* C8 as stated: halt called while the server is alive, with a server that
\* stops on 'halt' whether or not it answers it, returns without raising
\* and the server process is no longer alive.
C8_HaltReturns ==
    \A c \in Callers :
        (behaviour \in {"echo", "quiet"} /\ op[c] = "halt"
            /\ hist[c].was_alive /\ Ended(c))
        => (result[c] = Returned(NoQuery) /\ ~alive)

\* C8 amended: halt called while the server is alive first enqueues 'halt'
\* through ask; only when that ask has dequeued a response and returned does
\* halt join the process, and it then returns without raising with the
\* server no longer alive; when the ask raises (Empty if nothing answers
\* 'halt', RuntimeError on a pending error) halt raises the same without
\* joining.
C8_HaltAsksThenJoins ==
    \A c \in Callers :
        (op[c] = "halt" /\ hist[c].was_alive)
        => /\ pc[c] \in {"ask_get", "ask_except", "check_empty", "check_get",
                         "halt_join", "idle"}
              => (query[c] = Query("halt", c, hist[c].n) /\ hist[c].locked)
           /\ pc[c] = "halt_join" => hist[c].got # NoQuery
           /\ (Ended(c) /\ result[c].kind = "return")
              => /\ result[c] = Returned(NoQuery)
                 /\ hist[c].got # NoQuery
                 /\ hist[c].joined
                 /\ ~alive
           /\ (Ended(c) /\ result[c].kind # "return")
              => /\ result[c].kind \in {"Empty", "RuntimeError",
                                        "UnboundLocalError"}
                 /\ ~hist[c].joined
           /\ (Ended(c) /\ hist[c].got = NoQuery /\ hist[c].took = "none"
                 /\ ~hist[c].err_seen)
              => result[c].kind = "Empty"

C8_Witness ==
    \E c \in Callers :
        /\ op[c] = "halt"
        /\ hist[c].was_alive
        /\ Ended(c)
        /\ result[c].kind = "return"
        /\ hist[c].joined
        /\ ~alive

\* C9: a restart whose halt has returned launches a new server process and
\* returns: the old process has exited and a new one is running.
C9_RestartLaunches ==
    \A c \in Callers :
        (op[c] = "restart" /\ Ended(c) /\ hist[c].joined)
        => /\ result[c].kind = "return"
           /\ alive
           /\ started > 1

\* C10: a successful disconnect puts back as stdout and stderr the two
\* handles that were current when connect was called and leaves the
\* StreamQueue not connected, and a connect that follows it succeeds.
C10_RoundTrip ==
    [][/\ (initial_streams # <<>> /\ sq_call'.name = "disconnect")
          => /\ sq_call'.raised = "none"
             /\ sys_stdout' = connected_at[1]
             /\ sys_stderr' = connected_at[2]
             /\ initial_streams' = <<>>
       /\ (sq_call = Call("disconnect", "none") /\ sq_call'.name = "connect")
          => (sq_call'.raised = "none" /\ initial_streams' # <<>>)
      ]_vars

C10_Witness ==
    /\ sq_call = Call("disconnect", "none")
    /\ nwrites > 0
    /\ connected_at = <<File("replaced_out"), File("replaced_err")>>
    /\ sys_stdout = File("replaced_out")
    /\ sys_stderr = File("replaced_err")

\* the step is a call of connect or disconnect (a step of no other kind
\* leaves the clock and the write count alone and ends with this sq_call)
IsCallStep(method) ==
    /\ sq_call'.name = method
    /\ now' = now
    /\ nwrites' = nwrites

\* C11: connect on a connected StreamQueue raises "already connected" and
\* disconnect on a StreamQueue that is not connected raises "not connected";
\* both leave the recorded handles and the current stdout/stderr as they
\* were, so the recorded handles are never _SQWriters and writers are only
\* installed while handles are recorded.
C11_OutOfOrder ==
    [][/\ (IsCallStep("connect") /\ initial_streams # <<>>)
          => /\ sq_call'.raised
                  = "RuntimeError: StreamQueue is already connected"
             /\ UNCHANGED <<sys_stdout, sys_stderr, initial_streams,
                            connected_at, queue>>
       /\ (IsCallStep("disconnect") /\ initial_streams = <<>>)
          => /\ sq_call'.raised = "RuntimeError: StreamQueue is not connected"
             /\ UNCHANGED <<sys_stdout, sys_stderr, initial_streams,
                            connected_at, queue>>
       /\ \A h \in {sys_stdout', sys_stderr'} :
             h.type = "_SQWriter" => initial_streams' # <<>>
       /\ initial_streams' # <<>>
          => (initial_streams'[1].type = "file"
                /\ initial_streams'[2].type = "file")
      ]_vars

C11_Witness ==
    /\ sq_call = Call("connect",
                      "RuntimeError: StreamQueue is already connected")
    /\ sys_stdout.type = "_SQWriter"
    /\ nwrites > 0

\* C19 as stated: when write has raised, stdout and stderr are the handles
\* that were in place before the _SQWriters were installed.
C19_HandlesBeforeInstall ==
    (sq_call.name = "write" /\ sq_call.raised # "none")
    => (sys_stdout = connected_at[1] /\ sys_stderr = connected_at[2])

\* C19 amended: a write of non-empty text during which the put, or anything
\* after it but the print to a detached terminal, fails raises, and stdout
\* and stderr are then sys.__stdout__ and sys.__stderr__ (whatever the
\* handles before connect were), neither of them an _SQWriter.
C19_DunderRestored ==
    (sq_call.name = "write" /\ sq_call.msg # <<>> /\ sq_call.fails # "none")
    => /\ sq_call.raised # "none"
       /\ sys_stdout = dunder_stdout
       /\ sys_stderr = dunder_stderr
       /\ sys_stdout.type # "_SQWriter" /\ sys_stderr.type # "_SQWriter"

C19_Witness ==
    /\ sq_call.name = "write"
    /\ sq_call.fails = "put"
    /\ sq_call.raised = "Exception"
    /\ connected_at = <<File("replaced_out"), File("replaced_err")>>
    /\ sys_stdout = dunder_stdout

\* no call but writes has been made on the manager besides the call c is in
OnlyWritesBeside(c) ==
    /\ hist[c].no_ask_before
    /\ \A d \in Callers \ {c} :
          \/ op[d] = "none"
          \/ op[d] = "write" /\ hist[d].no_ask_before

\* C20: a step of a write call neither changes the response queue nor
\* touches query_lock, and a write call never holds the lock; and an ask
\* beside which only writes are called, in any interleaving with them,
\* dequeues no response but the one to its own query.
C20_WritesApart ==
    [][\A c \in Callers :
         /\ (op'[c] = "write" /\ pc'[c] # pc[c])
            => /\ response_queue' = response_queue
               /\ query_lock' = query_lock
               /\ query_lock' # c
               /\ ~hist'[c].locked
         /\ (op'[c] = "ask" /\ OnlyWritesBeside(c)' /\ hist'[c].got # NoQuery)
            => hist'[c].got = query'[c]
      ]_vars

C20_Witness ==
    \E c, d \in Callers :
        /\ op[c] = "ask" /\ Ended(c)
        /\ OnlyWritesBeside(c)
        /\ ~hist[c].alone
        /\ result[c] = Returned(query[c])
        /\ op[d] = "write" /\ Ended(d)
        /\ hist[d].n > hist[c].n

\* ---- steps of the StreamQueue specifications
\* the step is a call of _SQWriter.write
IsWriteStep == nwrites' = nwrites + 1
\* the step is a turn of the loop of get
IsGetLoopStep == Len(drained') = Len(drained) + 1
\* the step is the return of get
IsGetReturnStep == get_pc = "loop" /\ get_pc' = "idle"
\* the message tuple a write of msg at the time t builds
WrittenTuple(call, t) == <<timestr(t), call.stream_name, call.msg>>

\* the text get makes of the message tuples ms, one after the other
RECURSIVE text_of(_, _, _)
text_of(ms, new_line, last) ==
    IF ms = <<>> THEN <<>>
    ELSE LET m == Head(ms)
         IN formatted(m, new_line, last)
            \o text_of(Tail(ms), m[3][Len(m[3])] = "\n", m[2])

\* C14: a write of non-empty text in which put does not fail appends exactly
\* one message tuple to the queue and a write of empty text leaves the queue
\* alone; the tuples put so far are, in the order they were put, the tuples
\* get has taken followed by the tuples still queued (none lost, none twice,
\* none out of order); the text get has produced is the text of the tuples
\* taken, each once; and whenever get returns, every tuple put so far has
\* been taken and its text returned.
C14_NoLossNoDup ==
    [][/\ enq' = drained' \o queue'
       /\ text' \o out' = text_of(drained', TRUE, <<>>)
       /\ (IsWriteStep /\ sq_call'.fails # "put")
          => IF sq_call'.msg = <<>>
             THEN queue' = queue
             ELSE queue' = Append(queue, WrittenTuple(sq_call', now))
       /\ IsGetReturnStep
          => /\ drained' = enq'
             /\ text' = text \o out
             /\ out' = <<>>
      ]_vars

C14_Witness ==
    /\ get_pc = "idle"
    /\ Len(drained) = 2
    /\ queue = <<>>
    /\ drained[1][2] # drained[2][2]
    /\ text = text_of(enq, TRUE, <<>>)

\* the text of a message with the line head after each of its newlines but
\* a final one, from the i-th piece on
RECURSIVE HeadAfterInnerNewlines(_, _, _)
HeadAfterInnerNewlines(msg, head, i) ==
    IF i > Len(msg) THEN <<>>
    ELSE <<msg[i]>>
         \o (IF msg[i] = "\n" /\ i < Len(msg) THEN head ELSE <<>>)
         \o HeadAfterInnerNewlines(msg, head, i + 1)

\* s begins with p
StartsWith(s, p) == Len(s) >= Len(p) /\ SubSeq(s, 1, Len(p)) = p
\* s without its first n pieces
Drop(s, n) == SubSeq(s, n + 1, Len(s))
\* the output produced so far (returned or not) ends at a line boundary
AtLineBoundary ==
    LET t == text \o out IN t = <<>> \/ t[Len(t)] = "\n"
\* the two messages of the example and the text they drain to
HelloWorld(t1, t2) ==
    << <<timestr(t1), <<"W1">>, <<"hello", "\n">> >>,
       <<timestr(t2), <<"W1", " ERR">>, <<"world">> >> >>
HelloWorldText(t1, t2) ==
    <<"[", TimeStrs[t1 + 1], " ", "W1", "] ", "hello", "\n",
      "[", TimeStrs[t2 + 1], " ", "W1", " ERR", "] ", "world">>

\* C15: a turn of the loop of get appends to its output, for the message it
\* takes: the line head when the output so far ended at a line boundary;
\* nothing before the text when it ended inside a line and the message is of
\* the stream of the message before; a newline and the line head when it
\* ended inside a line and the message is of another stream; then the text
\* with the line head after each newline but a final one.  And 'hello\n' on
\* W1 followed by 'world' on W1 ERR drains to
\* '[t1 W1] hello\n[t2 W1 ERR] world'.
C15_Coalescing ==
    [][/\ IsGetLoopStep
          => LET m == Head(queue)
                 head == line_head(m[1], m[2])
                 body == HeadAfterInnerNewlines(m[3], head, 1)
                 before == drained[Len(drained)]
                 added == Drop(out', Len(out))
             IN /\ StartsWith(out', out)
                /\ AtLineBoundary => added = head \o body
                /\ (~AtLineBoundary /\ m[2] = before[2]) => added = body
                /\ (~AtLineBoundary /\ m[2] # before[2])
                   => added = <<"\n">> \o head \o body
       /\ \A t1, t2 \in 0..MaxTime :
             (IsGetReturnStep /\ drained' = HelloWorld(t1, t2))
             => text' = HelloWorldText(t1, t2)
      ]_vars

C15_Witness ==
    \E t1, t2 \in 0..MaxTime :
        /\ t1 < t2
        /\ drained = HelloWorld(t1, t2)
        /\ get_pc = "idle"
        /\ text = HelloWorldText(t1, t2)

\* the lines of the text s: the pieces between its newlines (a text that
\* ends in a newline has no line after it)
RECURSIVE LinesFrom(_, _)
LinesFrom(s, line) ==
    IF s = <<>> THEN (IF line = <<>> THEN <<>> ELSE <<line>>)
    ELSE IF Head(s) = "\n" THEN <<line>> \o LinesFrom(Tail(s), <<>>)
    ELSE LinesFrom(Tail(s), Append(line, Head(s)))
Lines(s) == LinesFrom(s, <<>>)
\* how many pieces of s are in the set S
RECURSIVE Count(_, _)
Count(s, S) ==
    IF s = <<>> THEN 0
    ELSE (IF Head(s) \in S THEN 1 ELSE 0) + Count(Tail(s), S)
\* the writers of the process W1
Writers == {SQWriter(<<"W1">>), SQWriter(<<"W1", " ERR">>)}
\* the line is the line head of a time and of the writer w, followed by text
\* written to w only
LineOf(line, w) ==
    \E t \in 0..MaxTime :
        LET head == line_head(timestr(t), w.stream_name)
        IN /\ StartsWith(line, head)
           /\ \A i \in (Len(head) + 1)..Len(line) : line[i] = Word(w)

\* C16: every line of the text the calls of get have returned begins with one
\* line head and has no second one, and the words after the head were all
\* written to the stream the head names.
C16_OneHeadPerLine ==
    LET lines == Lines(text)
    IN \A i \in 1..Len(lines) :
           /\ Count(lines[i], {"["}) = 1
           /\ Count(lines[i], {"] "}) = 1
           /\ \E w \in Writers : LineOf(lines[i], w)

C16_Witness ==
    /\ get_pc = "idle"
    /\ Len(drained) = 2
    /\ drained[1][3] = <<"hello", "\n", "hello">>
    /\ drained[2][3] = <<"world">>
    /\ Len(Lines(text)) = 3
    /\ Lines(text)[3][Len(Lines(text)[3])] = "world"

\* the line a write prints to the terminal for the message tuple m: the line
\* head and the text, less one newline at the end
TerminalLine(m) ==
    LET l == line_head(m[1], m[2]) \o m[3]
    IN IF l[Len(l)] = "\n" THEN SubSeq(l, 1, Len(l) - 1) ELSE l
\* a write of non-empty text that returned, with a terminal that takes text
IsPlainWriteStep ==
    /\ IsWriteStep
    /\ sq_call'.msg # <<>>
    /\ sq_call'.fails = "none"
    /\ ~sq_call'.detached

\* C17: a write of non-empty text that returns appends its message tuple to
\* the queue, and it prints the line of the message to the terminal exactly
\* when more than MIN_READ_TIME (3) seconds have gone by since last_read_ts
\* and the text is not a bare newline; other writes leave the terminal alone
\* whatever the age is.  Every line printed to the terminal is the line of a
\* message that was put as well, and once get has returned it has been
\* taken by get.
C17_QueuedAndTerminal ==
    [][/\ IsPlainWriteStep
          => LET m == WrittenTuple(sq_call', now)
             IN /\ queue' = Append(queue, m)
                /\ IF now - last_read_ts > 3 /\ sq_call'.msg # <<"\n">>
                   THEN terminal' = Append(terminal, TerminalLine(m))
                   ELSE terminal' = terminal
       /\ \A i \in 1..Len(terminal') :
             \E j \in 1..Len(enq') : terminal'[i] = TerminalLine(enq'[j])
       /\ IsGetReturnStep
          => \A i \in 1..Len(terminal') :
                \E j \in 1..Len(drained') :
                    terminal'[i] = TerminalLine(drained'[j])
      ]_vars

C17_Witness ==
    /\ sq_call = Call("get", "none")
    /\ Len(terminal) = 1
    /\ Len(drained) = 2
    /\ terminal[1] = TerminalLine(drained[2])
    /\ drained[1][3] = <<"\n">>
    /\ drained[1][1] = drained[2][1]

\* C18: the return of get sets last_read_ts to the time of the return, also
\* when get took nothing off the queue, and nothing else changes
\* last_read_ts; and a write made MIN_READ_TIME (3) seconds or less after
\* last_read_ts prints nothing to the terminal.
C18_ReadTimeSet ==
    [][/\ IsGetReturnStep => last_read_ts' = now'
       /\ last_read_ts' # last_read_ts => IsGetReturnStep
       /\ (IsWriteStep /\ now - last_read_ts <= 3) => terminal' = terminal
      ]_vars

C18_Witness ==
    /\ sq_call.name = "write"
    /\ sq_call.msg = <<"world">>
    /\ sq_call.raised = "none"
    /\ now > 3
    /\ now - last_read_ts <= 3
    /\ last_read_ts > 0
    /\ drained = <<>>
    /\ Len(enq) = 1
    /\ enq[1][1] = timestr(now)
    /\ terminal = <<>>

\* ---- QcodesProcess.run
\* the message tuple of a trace written at the time t by the process W1
TraceTuple(t) == <<timestr(t), <<"W1", " ERR">>, Trace>>
\* the step is the except block of run
IsRunExceptStep == run_pc = "except" /\ run_pc' = "finally"

\* C12: when run is over in a process that connected, whether the target
\* returned or raised, disconnect has been called once, no handles are
\* recorded any more and stdout and stderr are the handles that connect
\* recorded; a process without a stream queue never connects and never calls
\* disconnect.
C12_DisconnectOnExit ==
    /\ (run_pc = "done" /\ run_hist.connected)
       => /\ run_hist.disconnects = 1
          /\ initial_streams = <<>>
          /\ <<sys_stdout, sys_stderr>> = connected_at
    /\ ~run_hist.connected => run_hist.disconnects = 0
    /\ ~stream_queue => ~run_hist.connected /\ connected_at = <<>>

C12_Witness ==
    /\ run_pc = "done"
    /\ run_hist.connected
    /\ failure = "target"
    /\ run_hist.disconnects = 1
    /\ sys_stdout = File("replaced_out")
    /\ sys_stderr = File("replaced_err")

IsSetStep == nsets' = nsets + 1

\* C21: a call of set_mp_method with the method that is already the start
\* method of the process returns and leaves the start method as it is; a
\* call without force with another method than the one that is set raises
\* RuntimeError and leaves the start method as it is; and after a call that
\* returns, the start method is the method asked for.
C21_Idempotent ==
    [][IsSetStep
       => /\ mp_call'.method = mp_get_start_method(actual_context)
             => /\ mp_call'.raised = "none"
                /\ actual_context' = mp_get_start_method(actual_context)
          /\ (~mp_call'.force /\ actual_context # "none"
                 /\ mp_call'.method # actual_context)
             => /\ mp_call'.raised = "RuntimeError"
                /\ actual_context' = actual_context
          /\ mp_call'.raised = "none" => actual_context' = mp_call'.method
      ]_vars

C21_Witness ==
    /\ nsets >= 2
    /\ mp_call.before = "spawn"
    /\ mp_call.method = "spawn"
    /\ ~mp_call.force
    /\ mp_call.raised = "none"
    /\ actual_context = "spawn"

\* ---- ServerManager.ask beside writes
\* C22: an ask beside which only writes are called ends by returning the
\* response it took off the response queue, by raising RuntimeError after it
\* took a string off the error queue, or by raising Empty, the failure of
\* the timed wait.
C22_ThreeOutcomes ==
    \A c \in Callers :
        (op[c] = "ask" /\ Ended(c) /\ OnlyWritesBeside(c))
        => \/ /\ result[c].kind = "return"
              /\ hist[c].got # NoQuery
              /\ result[c].val = hist[c].got
           \/ result[c].kind = "RuntimeError" /\ hist[c].took # "none"
           \/ result[c].kind = "Empty"

\* C23: whatever asks were made before, one that timed out and was answered
\* late included, the response an ask takes off the response queue, and the
\* one it returns, is the response to the query this ask put.
C23_ReplyPaired ==
    \A c \in Callers :
        op[c] = "ask"
        => /\ hist[c].got # NoQuery => hist[c].got = query[c]
           /\ (Ended(c) /\ result[c].kind = "return")
              => result[c].val = query[c]

\* ---- StreamQueue.get, call after call
\* C24: _on_new_line and _last_stream are kept from one call of get to the
\* next: they say whether all the text produced so far ends a line and which
\* stream the last message taken was of.  So the strings the calls of get
\* have returned (and the one being built), put together, are the string
\* one call of get on a new StreamQueue makes of all the messages taken,
\* however the messages fell into calls, calls that took nothing included.
C24_CursorPersists ==
    /\ text \o out = text_of(drained, TRUE, <<>>)
    /\ on_new_line = AtLineBoundary
    /\ last_stream = IF drained = <<>> THEN <<>>
                                       ELSE drained[Len(drained)][2]
    /\ get_pc = "idle" => out = <<>>

C24_Witness ==
    /\ get_pc = "loop"
    /\ text # <<>>
    /\ out = <<"hello", "\n">>
    /\ Len(drained) = 2
    /\ drained[1][3] = <<"hello", "\n", "hello">>
    /\ text \o out = text_of(drained, TRUE, <<>>)

\* ---- Keithley2450
\* a step of the call source_function(key)
IsSourceSetStep == k_call'.call = "source_function" /\ k_call'.arg \in SourceModes

\* a step of a call that reads the sweep axis of the active source module
IsActiveAxisStep ==
    /\ k_call'.call \in {"npts", "get_sweep_axis"}
    /\ k_call'.arg = source'.value

\* C25 (as stated): source_function(key) while the instrument's sense
\* function is 'resistance' raises RuntimeError, nothing having been sent to
\* the instrument, and leaves the instrument's source function, the
\* setpoints of the sweep parameters and the sweep arguments of every source
\* module as they were.
C25_RaisesBeforeAnyCommand ==
    [][(IsSourceSetStep /\ inverse_sense(instr_sense) = "resistance")
       => /\ k_call'.raised = "RuntimeError"
          /\ k_call'.sent = <<>>
          /\ instr_source' = instr_source
          /\ setpoints' = setpoints
          /\ sweep_arguments' = sweep_arguments
      ]_vars

\* C25 (amended): source_function(key) while the instrument's sense
\* function is 'resistance' raises RuntimeError after the query :SENS:FUNC?
\* and nothing else has been sent to the instrument: no :SOUR:FUNC command
\* is sent.  It leaves the instrument's functions, the value source_function
\* holds, the setpoints of the sweep parameters and the sweep arguments of
\* every source module as they were; sense_function holds 'resistance'.
C25_RaisesBeforeSourceCommand ==
    [][(IsSourceSetStep /\ inverse_sense(instr_sense) = "resistance")
       => /\ k_call'.raised = "RuntimeError"
          /\ k_call'.sent = <<<<":SENS:FUNC?">>>>
          /\ instr_source' = instr_source
          /\ instr_sense' = instr_sense
          /\ source_function' = source_function
          /\ sense_function' = "resistance"
          /\ setpoints' = setpoints
          /\ sweep_arguments' = sweep_arguments
      ]_vars

C25_Witness ==
    /\ k_call.call = "source_function"
    /\ k_call.arg = "current"
    /\ k_call.raised = "RuntimeError"
    /\ source_function = "voltage"
    /\ setpoints["resistance"] = "voltage"
    /\ sweep_arguments["voltage"] # NoSetup

\* C26: a call source_function(key) that returns leaves the source module of
\* key the active one, with no sweep arguments.  From then on a call of
\* npts, or of get_sweep_axis on the active source module, raises ValueError
\* exactly when sweep_setup has not been called on that module since the
\* last source_function(key) that returned; when it returns, it returns the
\* axis of the arguments of that later sweep_setup.
C26_SetupCleared ==
    [][/\ (IsSourceSetStep /\ k_call'.raised = "none")
          => /\ source'.value = k_call'.arg
             /\ source'.sent = <<>>
             /\ sweep_arguments'[k_call'.arg] = NoSetup
       /\ k_hist'.source_set
          => (sweep_arguments'[source_function'] # NoSetup
              => k_hist'.made_since[source_function'])
       /\ (IsActiveAxisStep /\ k_hist.source_set)
          => /\ (k_call'.raised = "ValueError")
                = ~k_hist.made_since[k_call'.arg]
             /\ (k_call'.raised # "ValueError")
                => /\ k_call'.raised = "none"
                   /\ sweep_arguments[k_call'.arg] \in Setups
                   /\ k_call'.value \in
                        {sweep_axis_of(sweep_arguments[k_call'.arg]).value,
                         <<sweep_arguments[k_call'.arg].step_count>>}
      ]_vars

C26_Witness ==
    /\ k_call.call = "npts"
    /\ k_call.raised = "ValueError"
    /\ k_hist.source_set
    /\ source_function = "voltage"
    /\ sweep_arguments["current"] # NoSetup
    /\ ~k_hist.made_since["current"]

\* C27: once a call source_function(key) or sense_function(key) has
\* returned, the sweep parameter of the sense module the property sense
\* returns has as its setpoints the sweep_axis of the source module the
\* property source returns; neither property needs to ask the instrument.
C27_SetpointsFollow ==
    k_hist.any_set
    => /\ source.sent = <<>>
       /\ sense(sense_function).sent = <<>>
       /\ setpoints[sense(sense_function).value] = source.value

C27_Witness ==
    /\ k_hist.any_set
    /\ k_call.call = "source_function"
    /\ k_call.raised = "none"
    /\ source_function = "current"
    /\ sense_function = "voltage"
    /\ setpoints["voltage"] = "current"
    /\ setpoints["current"] = "voltage"

====
